---------------------------- MODULE Spec2Model ----------------------------
(***************************************************************************)
(* Client side of SRP-6a (SecureRemotePassword) together with the modular  *)
(* arithmetic kernel and the hex / base64 string utilities it rests on.    *)
(*                                                                         *)
(* Strings are sequences of one-character strings, byte arrays are         *)
(* sequences of integers in 0..255, big integers are integers.             *)
(* A call that can throw returns a record whose field "thrown" names the   *)
(* exception ("" when the call returned normally).                         *)
(***************************************************************************)
EXTENDS Integers, Sequences, FiniteSets, TLC

(***************************************************************************)
(* Bounds of the model                                                     *)
(***************************************************************************)
\* Depth of nested calls after which the engine raises
\* "RangeError: Maximum call stack size exceeded".
MaxCallDepth == 3
\* Arguments of the arithmetic kernel are drawn from -KMax..KMax.
KMax == 6
\* Number of operations performed on one session object.
MaxOps == 2
\* Number of digest functions the hash primitive ranges over.
HashKeys == 3
\* The longest run of draws randomA is followed through.
MaxDraws == 2
\* The longest byte array handed to the codec.
MaxBytes == 3
\* The longest hex string handed to trimHexZeroes.
MaxDigits == 4
\* The longest byte array read as a big integer (TLC's integers have 32 bits).
MaxBIBytes == 2

(***************************************************************************)
(* ModularArithmetic.ts                                                    *)
(***************************************************************************)
ZERO == 0
ONE == 1
TWO == 2

Ok(v) == [thrown |-> "", val |-> v]
Throw(e) == [thrown |-> e, val |-> 0]

\* BI.remainder: the sign of the result follows the dividend.
remainder(a, b) ==
    LET m == IF b < 0 THEN -b ELSE b
    IN  IF a >= 0 THEN a % m ELSE -((-a) % m)

\* BI.divide: the quotient is truncated towards zero.
divide(a, b) ==
    LET m == IF b < 0 THEN -b ELSE b
        q == IF a >= 0 THEN a \div m ELSE -((-a) \div m)
    IN  IF b < 0 THEN -q ELSE q

abs(x) == IF x >= ZERO THEN x ELSE -x

RECURSIVE eGcdLoop(_, _, _, _, _, _)
eGcdLoop(a, b, x, y, u, v) ==
    IF a # ZERO
    THEN LET q == divide(b, a)
             r == remainder(b, a)
             m == x - u * q
             n == y - v * q
         IN  eGcdLoop(r, a, u, v, m, n)
    ELSE [thrown |-> "", g |-> b, x |-> x, y |-> y]

\* eGcd with the guard written with < in place of <=.
eGcd_guardLT(a, b) ==
    IF a < ZERO \/ b < ZERO
    THEN [thrown |-> "RangeError", g |-> 0, x |-> 0, y |-> 0]
    ELSE eGcdLoop(a, b, ZERO, ONE, ONE, ZERO)

eGcd(a, b) ==
    IF a <= ZERO \/ b <= ZERO
    THEN [thrown |-> "RangeError", g |-> 0, x |-> 0, y |-> 0]
    ELSE eGcdLoop(a, b, ZERO, ONE, ONE, ZERO)

toZn(x, N) ==
    IF N <= ZERO
    THEN Throw("RangeError")
    ELSE LET aZn == remainder(x, N)
         IN  Ok(IF aZn < ZERO THEN aZn + N ELSE aZn)

\* modInv handing back the Bezout coefficient without reducing it into Zn.
modInv_unreduced(a, n) ==
    LET an == toZn(a, n)
    IN  IF an.thrown # ""
        THEN an
        ELSE LET egcd == eGcd(an.val, n)
             IN  IF egcd.thrown # ""
                 THEN Throw(egcd.thrown)
                 ELSE IF egcd.g # ONE
                      THEN Throw("RangeError")
                      ELSE Ok(egcd.x)

modInv(a, n) ==
    LET an == toZn(a, n)
    IN  IF an.thrown # ""
        THEN an
        ELSE LET egcd == eGcd(an.val, n)
             IN  IF egcd.thrown # ""
                 THEN Throw(egcd.thrown)
                 ELSE IF egcd.g # ONE
                      THEN Throw("RangeError")
                      ELSE toZn(egcd.x, n)

RECURSIVE modPowLoop(_, _, _, _)
modPowLoop(result, base, currExp, N) ==
    IF currExp > ZERO
    THEN modPowLoop(IF remainder(currExp, TWO) = ONE
                    THEN remainder(result * base, N)
                    ELSE result,
                    remainder(base * base, N),
                    divide(currExp, TWO),
                    N)
    ELSE result

\* modPow entered with `depth` frames of modPow already on the call stack.
RECURSIVE modPowAt(_, _, _, _)
modPowAt(x, y, N, depth) ==
    IF depth > MaxCallDepth
    THEN Throw("RangeError: Maximum call stack size exceeded")
    ELSE IF N <= ONE
         THEN Throw("RangeError")
         ELSE LET base == toZn(x, N).val
              IN  IF y <= ZERO
                  THEN LET inner == modPowAt(base, abs(y), N, depth + 1)
                       IN  IF inner.thrown # ""
                           THEN inner
                           ELSE modInv(inner.val, N)
                  ELSE Ok(modPowLoop(ONE, base, y, N))

modPow(x, y, N) == modPowAt(x, y, N, 0)

(***************************************************************************)
(* Constants.ts (BASE64, HEX_DIGITS) and the characters strings are made of *)
(***************************************************************************)
\* The characters with codes 43 (plus sign) to 122 (z), in code order; the
\* grave accent, code 96, is spelled out.
Ascii ==
    << "+", ",", "-", ".", "/",
       "0", "1", "2", "3", "4", "5", "6", "7", "8", "9",
       ":", ";", "<", "=", ">", "?", "@",
       "A", "B", "C", "D", "E", "F", "G", "H", "I", "J", "K", "L", "M",
       "N", "O", "P", "Q", "R", "S", "T", "U", "V", "W", "X", "Y", "Z",
       "[", "\\", "]", "^", "_", "(grave)",
       "a", "b", "c", "d", "e", "f", "g", "h", "i", "j", "k", "l", "m",
       "n", "o", "p", "q", "r", "s", "t", "u", "v", "w", "x", "y", "z" >>

\* The code of each character.
CharCodes ==
    [c \in { Ascii[i] : i \in 1..Len(Ascii) } |->
        42 + (CHOOSE i \in 1..Len(Ascii) : Ascii[i] = c)]

\* String.prototype.charCodeAt for one character.
charCodeAt(c) == CharCodes[c]

fromCharCode(n) == Ascii[n - 42]

\* String.prototype.toUpperCase.
toUpperCase(str) ==
    [i \in 1..Len(str) |->
        LET n == charCodeAt(str[i])
        IN  IF n >= 97 /\ n <= 122 THEN fromCharCode(n - 32) ELSE str[i]]

HEX_DIGITS ==
    << "0", "1", "2", "3", "4", "5", "6", "7",
       "8", "9", "a", "b", "c", "d", "e", "f" >>

BASE64 ==
    << "A", "B", "C", "D", "E", "F", "G", "H", "I", "J", "K", "L", "M",
       "N", "O", "P", "Q", "R", "S", "T", "U", "V", "W", "X", "Y", "Z",
       "a", "b", "c", "d", "e", "f", "g", "h", "i", "j", "k", "l", "m",
       "n", "o", "p", "q", "r", "s", "t", "u", "v", "w", "x", "y", "z",
       "0", "1", "2", "3", "4", "5", "6", "7", "8", "9", "+", "/" >>

\* The value of one hexadecimal digit, as parseInt(_, 16) and BI.BigInt("0x...") read it.
hexDigitValue(c) ==
    LET n == charCodeAt(c)
    IN  IF n >= 48 /\ n <= 57 THEN n - 48
        ELSE IF n >= 65 /\ n <= 70 THEN n - 55
        ELSE n - 87

\* BI.BigInt("0x" + digits)
RECURSIVE bigIntOfHexDigits(_)
bigIntOfHexDigits(digits) ==
    IF Len(digits) = 0
    THEN 0
    ELSE 16 * bigIntOfHexDigits(SubSeq(digits, 1, Len(digits) - 1))
         + hexDigitValue(digits[Len(digits)])

\* BI.prototype.toString(16) / Number.prototype.toString(16) of a value >= 0.
RECURSIVE toString16(_)
toString16(n) ==
    IF n < 16
    THEN << HEX_DIGITS[n + 1] >>
    ELSE toString16(n \div 16) \o << HEX_DIGITS[(n % 16) + 1] >>

\* String.prototype.substring(from)
substring(str, from) == SubSeq(str, from + 1, Len(str))

(***************************************************************************)
(* StringUtils.ts                                                          *)
(***************************************************************************)
padZeroPrefix(inp) == IF Len(inp) = 1 THEN << "0" >> \o inp ELSE inp

RECURSIVE hexOfArray(_)
hexOfArray(inp) ==
    IF Len(inp) = 0
    THEN << >>
    ELSE hexOfArray(SubSeq(inp, 1, Len(inp) - 1))
         \o padZeroPrefix(toString16(inp[Len(inp)]))

hexOfBuff(inp) == hexOfArray(inp)

\* The digits that follow "0x" in prefixedHexOfArray / prefixedHexOfBuff.
RECURSIVE prefixedHexDigits(_)
prefixedHexDigits(inp) ==
    IF Len(inp) = 0
    THEN << >>
    ELSE prefixedHexDigits(SubSeq(inp, 1, Len(inp) - 1))
         \o << HEX_DIGITS[(inp[Len(inp)] \div 16) + 1],
               HEX_DIGITS[(inp[Len(inp)] % 16) + 1] >>

\* BI.BigInt(prefixedHexOfBuff(inp)) and BI.BigInt(prefixedHexOfArray(inp))
bigIntOfPrefixedHexOfBuff(inp) == bigIntOfHexDigits(prefixedHexDigits(inp))

nonprefixedHexOfPositiveBI(inp) ==
    LET str == toString16(inp)
    IN  IF Len(str) % 2 = 0
        THEN str
        ELSE IF str[1] = "0" THEN substring(str, 1) ELSE << "0" >> \o str

RECURSIVE countLeadingZeroes(_, _)
countLeadingZeroes(inp, countZeroes) ==
    IF countZeroes < Len(inp) /\ inp[countZeroes + 1] = "0"
    THEN countLeadingZeroes(inp, countZeroes + 1)
    ELSE countZeroes

\* trimHexZeroes without the zero digit kept or added for an odd digit count.
trimHexZeroes_stripAll(inp) == substring(inp, countLeadingZeroes(inp, 0))

trimHexZeroes(inp) ==
    LET countZeroes == countLeadingZeroes(inp, 0)
    IN  IF countZeroes > 0
        THEN IF (Len(inp) - countZeroes) % 2 = 0
             THEN substring(inp, countZeroes)
             ELSE substring(inp, countZeroes - 1)
        ELSE IF Len(inp) % 2 = 0
             THEN inp
             ELSE << "0" >> \o inp

RECURSIVE base64OfWholeTriples(_, _)
base64OfWholeTriples(inp, numWhole) ==
    IF numWhole = 0
    THEN << >>
    ELSE LET i == numWhole - 1
             b0 == inp[i * 3 + 1]
             b1 == inp[i * 3 + 2]
             b2 == inp[i * 3 + 3]
         IN  base64OfWholeTriples(inp, numWhole - 1)
             \o << BASE64[(b0 \div 4) + 1],
                   BASE64[((b0 % 4) * 16 + (b1 \div 16)) + 1],
                   BASE64[((b1 % 16) * 4 + (b2 \div 64)) + 1],
                   BASE64[(b2 % 64) + 1] >>

base64OfArray(inp) ==
    LET numWhole == Len(inp) \div 3
        extraBytes == Len(inp) - numWhole * 3
        i == numWhole
        whole == base64OfWholeTriples(inp, numWhole)
        tail == IF extraBytes = 1
                THEN << BASE64[(inp[i * 3 + 1] \div 4) + 1],
                        BASE64[((inp[i * 3 + 1] % 4) * 16) + 1] >>
                ELSE IF extraBytes = 2
                THEN << BASE64[(inp[i * 3 + 1] \div 4) + 1],
                        BASE64[((inp[i * 3 + 1] % 4) * 16 + (inp[i * 3 + 2] \div 16)) + 1],
                        BASE64[((inp[i * 3 + 2] % 16) * 4) + 1] >>
                ELSE << >>
        padding == IF extraBytes > 0 THEN [j \in 1..(3 - extraBytes) |-> "="] ELSE << >>
    IN  whole \o tail \o padding

num64OfBase64(charCode) ==
    IF charCode = 43 THEN 62
    ELSE IF charCode = 47 THEN 63
    ELSE IF charCode <= 57 THEN charCode + 4
    ELSE IF charCode <= 90 THEN charCode - 65
    ELSE charCode - 71

RECURSIVE determinePaddingFrom(_, _)
determinePaddingFrom(inp, i) ==
    IF i > -1 /\ inp[i + 1] = "="
    THEN 1 + determinePaddingFrom(inp, i - 1)
    ELSE 0

\* determinePadding without the count of the trailing "=".
determinePadding_none(inp) == 0

determinePadding(inp) == determinePaddingFrom(inp, Len(inp) - 1)

RECURSIVE arrayOfFullQuads(_, _)
arrayOfFullQuads(inp, fullQuads) ==
    IF fullQuads <= 0
    THEN << >>
    ELSE LET i == fullQuads - 1
             int1 == num64OfBase64(charCodeAt(inp[i * 4 + 1]))
             int2 == num64OfBase64(charCodeAt(inp[i * 4 + 2]))
             int3 == num64OfBase64(charCodeAt(inp[i * 4 + 3]))
             int4 == num64OfBase64(charCodeAt(inp[i * 4 + 4]))
         IN  arrayOfFullQuads(inp, fullQuads - 1)
             \o << (int1 * 4 + (int2 \div 16)) % 256,
                   ((int2 % 16) * 16 + (int3 \div 4)) % 256,
                   ((int3 % 4) * 64 + int4) % 256 >>

\* For inputs whose length is a multiple of four, as base64OfArray produces.
arrayOfBase64(inp) ==
    LET paddingChars == determinePadding(inp)
        fullQuads == IF paddingChars = 0 THEN Len(inp) \div 4 ELSE (Len(inp) \div 4) - 1
        i == fullQuads
        int1 == num64OfBase64(charCodeAt(inp[i * 4 + 1]))
        int2 == num64OfBase64(charCodeAt(inp[i * 4 + 2]))
        int3 == num64OfBase64(charCodeAt(inp[i * 4 + 3]))
        tail == IF paddingChars = 1
                THEN << (int1 * 4 + (int2 \div 16)) % 256,
                        ((int2 % 16) * 16 + (int3 \div 4)) % 256 >>
                ELSE IF paddingChars = 2
                THEN << (int1 * 4 + (int2 \div 16)) % 256 >>
                ELSE << >>
    IN  arrayOfFullQuads(inp, fullQuads) \o tail

hexOfBase64(inp) == trimHexZeroes(hexOfArray(arrayOfBase64(inp)))

\* For an input that decodes to at least one byte; BigInt below is the call with
\* the case of no digit.
bigintOfBase64(inp) == bigIntOfHexDigits(prefixedHexDigits(arrayOfBase64(inp)))

\* inp.match(/../g) followed by parseInt(h, 16) of each pair.
RECURSIVE bytesOfHexPairs(_)
bytesOfHexPairs(inp) ==
    IF Len(inp) < 2
    THEN << >>
    ELSE << hexDigitValue(inp[1]) * 16 + hexDigitValue(inp[2]) >>
         \o bytesOfHexPairs(SubSeq(inp, 3, Len(inp)))

base64OfHex(inp) ==
    IF Len(inp) < 2 THEN << >> ELSE base64OfArray(bytesOfHexPairs(inp))

(***************************************************************************)
(* State                                                                   *)
(***************************************************************************)
VARIABLES
    this,     \* the SecureRemotePassword object: its fields
    hkey,     \* which digest function the hash primitive computes
    history,  \* the operations performed on the session, oldest first: arguments,
              \* locals, outcome, the object's fields before and after
    kcall,    \* the last call into the arithmetic kernel: function, arguments, outcome
    ccall,    \* the last call into the codec: function, input, outcome
    rcall     \* the last call of randomA: the draws it was served, outcome

vars == <<this, hkey, history, kcall, ccall, rcall>>

(***************************************************************************)
(* The digest primitive                                                    *)
(*                                                                         *)
(* The protocol is independent of the digest function.  The model's        *)
(* digests are two bytes long; which function the primitive computes is    *)
(* fixed by hkey when the system starts.                                   *)
(***************************************************************************)
DigestValues ==
    << << 0, 0 >>, << 0, 171 >>, << 171, 205 >>, << 10, 188 >> >>

Digests == { DigestValues[i] : i \in 1..Len(DigestValues) }

RECURSIVE mix(_, _)
mix(x, h) ==
    IF Len(x) = 0
    THEN h
    ELSE mix(SubSeq(x, 2, Len(x)), (h * 31 + charCodeAt(x[1])) % 65521)

hash(x) == DigestValues[(mix(x, hkey + 7) % Len(DigestValues)) + 1]

(***************************************************************************)
(* SecureRemotePassword                                                    *)
(***************************************************************************)
\* new SecureRemotePassword(NStr, gStr, kHexStr)
constructor(NVal, gVal, kVal) ==
    [ verifier |-> ZERO, I |-> << >>, S |-> ZERO, B |-> ZERO, P |-> << >>,
      K |-> << >>, AHex |-> << >>, M1Hex |-> << >>, salt |-> << >>,
      k |-> kVal, g |-> gVal, N |-> NVal ]

\* One pass of the loop of randomA per element of draws: a draw is the bytes
\* crypto.getRandomValues returned and the digits of the clock's reading.
RECURSIVE randomALoop(_, _, _)
randomALoop(obj, r, draws) ==
    IF r = ZERO
    THEN IF Len(draws) = 0
         THEN [returned |-> FALSE, val |-> r]
         ELSE LET rBi == bigIntOfPrefixedHexOfBuff(draws[1].random)
                  oneTimeBi == bigIntOfPrefixedHexOfBuff(
                                   hash(obj.I \o << ":" >> \o obj.salt \o << ":" >>
                                        \o draws[1].time))
              IN  randomALoop(obj, remainder(oneTimeBi + rBi, obj.N), Tail(draws))
    ELSE [returned |-> Len(draws) = 0, val |-> r]

\* randomA with the loop left after its first pass, whatever r is.
randomA_once(obj, draws) ==
    IF Len(draws) = 0
    THEN [returned |-> FALSE, val |-> ZERO]
    ELSE [returned |-> Len(draws) = 1,
          val |-> remainder(
                      bigIntOfPrefixedHexOfBuff(
                          hash(obj.I \o << ":" >> \o obj.salt \o << ":" >>
                               \o draws[1].time))
                      + bigIntOfPrefixedHexOfBuff(draws[1].random), obj.N)]

randomA(obj, draws) == randomALoop(obj, ZERO, draws)

computeU(AHex, BHex) ==
    LET result == bigIntOfPrefixedHexOfBuff(hash(AHex \o BHex))
    IN  IF result = ZERO THEN [defined |-> FALSE, val |-> 0]
                         ELSE [defined |-> TRUE, val |-> result]

generateX(obj, saltHex, identity, pw) ==
    LET hash1 == hexOfBuff(hash(identity \o << ":" >> \o pw))
        concat == toUpperCase(saltHex \o hash1)
    IN  remainder(bigIntOfPrefixedHexOfBuff(hash(concat)), obj.N)

posMod(inp, N) ==
    LET rem == remainder(inp, N)
    IN  IF rem >= ZERO THEN rem ELSE rem + N

computeSessionKey(obj, x, u, a) ==
    LET exp == a + u * x
        kv == obj.k * obj.verifier
        diff == posMod(obj.B - kv, obj.N)
    IN  modPow(diff, exp, obj.N)

\* The value of a result: a BI (generateVerifier, step2), a hex string
\* (generateRandomSalt) or a DataForSignIn {AB64, M1B64} (step1); the fields
\* that do not apply are left empty.
NoValue == [BI |-> 0, hex |-> << >>, AB64 |-> << >>, M1B64 |-> << >>]
BIValue(n) == [NoValue EXCEPT !.BI = n]
HexValue(h) == [NoValue EXCEPT !.hex = h]
DataForSignIn(AB64, M1B64) == [NoValue EXCEPT !.AB64 = AB64, !.M1B64 = M1B64]

\* What an operation hands back: a thrown exception (a rejected promise), or a
\* ValResult, {isOk: true, value} or {isOk: false, errMsg}.
Thrown(e) == [thrown |-> e, isOk |-> FALSE, errMsg |-> "", value |-> NoValue]
Failure(msg) == [thrown |-> "", isOk |-> FALSE, errMsg |-> msg, value |-> NoValue]
Success(v) == [thrown |-> "", isOk |-> TRUE, errMsg |-> "", value |-> v]

NoLocals == [a |-> 0, x |-> 0, u |-> 0, M1Buff |-> << >>, M2Buff |-> << >>]

\* generateRandomSalt hashes the clock, the server salt and 32 random bytes:
\* digest is the digest of that string.
generateRandomSalt(obj, digest) ==
    [obj |-> obj, ret |-> Success(HexValue(hexOfArray(digest))), loc |-> NoLocals]

\* generateVerifier once x is computed, and once g^x mod N has returned v.
generateVerifierOf(obj, x, v) ==
    IF v.thrown # ""
    THEN [obj |-> obj, ret |-> Thrown(v.thrown), loc |-> [NoLocals EXCEPT !.x = x]]
    ELSE [obj |-> [obj EXCEPT !.verifier = v.val], ret |-> Success(BIValue(v.val)),
          loc |-> [NoLocals EXCEPT !.x = x]]

generateVerifierAt(obj, x) == generateVerifierOf(obj, x, modPow(obj.g, x, obj.N))

generateVerifier(obj, saltHex, identity, password) ==
    generateVerifierAt(obj, generateX(obj, saltHex, identity, password))

\* The test step1 applies to the server's public value with the literal zero in
\* place of the residue modulo N.
serverBIsZero_literal(obj) == obj.B = ZERO

\* The test step1 applies to the server's public value.
serverBIsZero(obj) == remainder(obj.B, obj.N) = ZERO

\* step1 is followed statement by statement: each stage below receives the
\* object and the locals as the statements before it left them, and hands them
\* to the next one.

\* The return statement: AB64 and M1B64 of the stored AHex and M1Hex.
step1_return(obj, loc) ==
    [obj |-> obj,
     ret |-> Success(DataForSignIn(base64OfHex(obj.AHex), base64OfHex(obj.M1Hex))),
     loc |-> loc]

\* this.M1Hex = hexOfBuff(M1Buff)
step1_M1Hex(obj, loc, M1Buff) ==
    step1_return([obj EXCEPT !.M1Hex = hexOfBuff(M1Buff)],
                 [loc EXCEPT !.M1Buff = M1Buff])

\* this.K = hexOfBuff(hash(sStr)); M1Buff = hash(AHex + hex(B) + sStr)
step1_K(obj, loc, sStr) ==
    step1_M1Hex([obj EXCEPT !.K = hexOfBuff(hash(sStr))], loc,
                hash(obj.AHex \o nonprefixedHexOfPositiveBI(obj.B) \o sStr))

\* this.S = computeSessionKey(...); sStr = nonprefixedHexOfPositiveBI(this.S)
step1_S(obj, loc, S) ==
    IF S.thrown # ""
    THEN [obj |-> obj, ret |-> Thrown(S.thrown), loc |-> loc]
    ELSE step1_K([obj EXCEPT !.S = S.val], loc, nonprefixedHexOfPositiveBI(S.val))

\* this.verifier = modPow(g, x, N)
step1_verifier(obj, loc, v) ==
    IF v.thrown # ""
    THEN [obj |-> obj, ret |-> Thrown(v.thrown), loc |-> loc]
    ELSE step1_S([obj EXCEPT !.verifier = v.val], loc,
                 computeSessionKey([obj EXCEPT !.verifier = v.val], loc.x, loc.u, loc.a))

\* u = computeU(AHex, BHex); if (!u) ...
step1_u(obj, loc, u) ==
    IF ~u.defined
    THEN [obj |-> obj, ret |-> Failure("Bad client value u"), loc |-> loc]
    ELSE step1_verifier(obj, [loc EXCEPT !.u = u.val], modPow(obj.g, loc.x, obj.N))

\* this.AHex = nonprefixedHexOfPositiveBI(ANum)
step1_AHex(obj, loc, AHex, serverBB64) ==
    step1_u([obj EXCEPT !.AHex = AHex], loc, computeU(AHex, hexOfBase64(serverBB64)))

\* if (B % N === 0) ...; x = generateX(hexOfBase64(saltB64), I, P)
step1_B(obj, loc, ANum, saltB64, serverBB64) ==
    IF serverBIsZero(obj)
    THEN [obj |-> obj, ret |-> Failure("Bad server public value B = 0"), loc |-> loc]
    ELSE step1_AHex(obj,
                    [loc EXCEPT !.x = generateX(obj, hexOfBase64(saltB64), obj.I, obj.P)],
                    nonprefixedHexOfPositiveBI(ANum), serverBB64)

\* ANum = modPow(g, a, N); this.B = bigintOfBase64(serverBB64)
step1_ANum(obj, loc, ANum, saltB64, serverBB64) ==
    IF ANum.thrown # ""
    THEN [obj |-> obj, ret |-> Thrown(ANum.thrown), loc |-> loc]
    ELSE step1_B([obj EXCEPT !.B = bigintOfBase64(serverBB64)], loc, ANum.val,
                 saltB64, serverBB64)

\* step1 with A computed from a + 1 in place of a.
step1_shiftedA(obj, identity, password, saltB64, serverBB64, a) ==
    step1_ANum([obj EXCEPT !.I = identity, !.P = password],
               [NoLocals EXCEPT !.a = a],
               modPow(obj.g, a + 1, obj.N), saltB64, serverBB64)

\* step1 once randomA has returned a.
step1(obj, identity, password, saltB64, serverBB64, a) ==
    step1_ANum([obj EXCEPT !.I = identity, !.P = password],
               [NoLocals EXCEPT !.a = a],
               modPow(obj.g, a, obj.N), saltB64, serverBB64)

step2(obj, serverM2B64) ==
    LET SHex == nonprefixedHexOfPositiveBI(obj.S)
        M2Buff == hash(obj.AHex \o obj.M1Hex \o SHex)
        clientM2Hex == hexOfBuff(M2Buff)
        serverM2Hex == hexOfBase64(serverM2B64)
        loc == [NoLocals EXCEPT !.M2Buff = M2Buff]
    IN  IF clientM2Hex # serverM2Hex
        THEN [obj |-> obj, ret |-> Failure("Bad server credentials (M2)"), loc |-> loc]
        ELSE [obj |-> obj, ret |-> Success(BIValue(obj.S)), loc |-> loc]

(***************************************************************************)
(* The environment: group parameters, credentials, what the peer sends,    *)
(* what the random source and the clock return                             *)
(***************************************************************************)
\* (N, g, k): N prime, g a primitive root modulo N.
Groups == { [N |-> 5, g |-> 2, k |-> 3], [N |-> 7, g |-> 3, k |-> 5] }

Identities == { << "u" >> }
Passwords == { << "p" >>, << "q" >> }
\* A salt is a digest (generateRandomSalt); one with a leading zero byte, one without.
SaltBytes == { << 0, 171 >>, << 171, 205 >> }
\* The server's public value as bytes: residues, multiples of N, a leading zero byte.
ServerBBytes(NVal) ==
    { << 0 >>, << 2 >>, << 3 >>, << NVal >>, << 0, 2 * NVal >>, << 1, 4 >> }
\* The server's evidence as bytes.
ServerM2Bytes == Digests
\* What crypto.getRandomValues fills the array with.
RandomArrays(NVal) == { << n >> : n \in 0..(NVal - 1) }
\* The digits of (new Date()).getTime().
Times == { << "0" >> }
Draws(NVal) == [random : RandomArrays(NVal), time : Times]

DrawSeqs(NVal) == UNION { [1..n -> Draws(NVal)] : n \in 1..MaxDraws }

\* The values randomA can return.
RandomAResults(obj) ==
    { randomA(obj, ds).val :
        ds \in { d \in DrawSeqs(obj.N) : randomA(obj, d).returned } }

NoArgs ==
    [identity |-> << >>, password |-> << >>, salt |-> << >>, serverB |-> << >>,
     serverM2 |-> << >>]

NoCall == [fn |-> "none", a |-> 0, b |-> 0, c |-> 0, out |-> Ok(0)]

\* kind says which of bytes (a byte array) and hex (a hex string) is the input;
\* b64, outBytes, outHex and outBI are what the functions called returned.
NoCodecCall ==
    [fn |-> "none", kind |-> "none", bytes |-> << >>, hex |-> << >>,
     b64 |-> << >>, outBytes |-> << >>, outHex |-> << >>, outBI |-> Ok(<< >>)]

NoRandomACall == [fn |-> "none", draws |-> << >>, returned |-> FALSE, val |-> 0]

Init ==
    /\ \E grp \in Groups : this = constructor(grp.N, grp.g, grp.k)
    /\ hkey \in 0..(HashKeys - 1)
    /\ history = << >>
    /\ kcall = NoCall
    /\ ccall = NoCodecCall
    /\ rcall = NoRandomACall

\* The operation's outcome `outcome` (the object's new fields, the locals, what is
\* handed back) becomes the state.
Perform(op, args, outcome) ==
    \E r \in { outcome } :
        /\ this' = r.obj
        /\ history' = Append(history,
                             [op |-> op, args |-> args, loc |-> r.loc, ret |-> r.ret,
                              pre |-> this, post |-> r.obj])
        /\ UNCHANGED <<hkey, kcall, ccall, rcall>>

GenerateRandomSalt ==
    /\ Len(history) < MaxOps
    /\ \E digest \in Digests :
          Perform("generateRandomSalt", NoArgs, generateRandomSalt(this, digest))

GenerateVerifier ==
    /\ Len(history) < MaxOps
    /\ \E saltBytes \in SaltBytes, identity \in Identities, password \in Passwords :
          Perform("generateVerifier",
                  [NoArgs EXCEPT !.identity = identity, !.password = password,
                                 !.salt = hexOfArray(saltBytes)],
                  generateVerifier(this, hexOfArray(saltBytes), identity, password))

Step1 ==
    /\ Len(history) < MaxOps
    /\ \E identity \in Identities :
          \E a \in RandomAResults([this EXCEPT !.I = identity]) :
             \E password \in Passwords, saltBytes \in SaltBytes,
                BBytes \in ServerBBytes(this.N) :
                Perform("step1",
                        [NoArgs EXCEPT !.identity = identity, !.password = password,
                                       !.salt = base64OfArray(saltBytes),
                                       !.serverB = base64OfArray(BBytes)],
                        step1(this, identity, password, base64OfArray(saltBytes),
                              base64OfArray(BBytes), a))

Step2 ==
    /\ Len(history) < MaxOps
    /\ \E M2Bytes \in ServerM2Bytes :
          Perform("step2",
                  [NoArgs EXCEPT !.serverM2 = base64OfArray(M2Bytes)],
                  step2(this, base64OfArray(M2Bytes)))

Next == GenerateRandomSalt \/ GenerateVerifier \/ Step1 \/ Step2

Spec == Init /\ [][Next]_vars

(***************************************************************************)
(* The arithmetic kernel called on its own                                 *)
(***************************************************************************)
KInts == (-KMax)..KMax

\* The arguments (a, b, c) of the call to come are drawn here.
KernelInit ==
    /\ \E a \in KInts, b \in KInts, c \in KInts :
          kcall = [fn |-> "none", a |-> a, b |-> b, c |-> c, out |-> Ok(0)]
    /\ this = constructor(5, 2, 3)
    /\ hkey = 0
    /\ history = << >>
    /\ ccall = NoCodecCall
    /\ rcall = NoRandomACall

CallEGcd ==
    /\ kcall.fn = "none"
    /\ kcall' = [kcall EXCEPT !.fn = "eGcd", !.out = eGcd(kcall.a, kcall.b)]
    /\ UNCHANGED <<this, hkey, history, ccall, rcall>>

CallToZn ==
    /\ kcall.fn = "none"
    /\ kcall' = [kcall EXCEPT !.fn = "toZn", !.out = toZn(kcall.a, kcall.b)]
    /\ UNCHANGED <<this, hkey, history, ccall, rcall>>

CallModInv ==
    /\ kcall.fn = "none"
    /\ kcall' = [kcall EXCEPT !.fn = "modInv", !.out = modInv(kcall.a, kcall.b)]
    /\ UNCHANGED <<this, hkey, history, ccall, rcall>>

CallModPow ==
    /\ kcall.fn = "none"
    /\ kcall' = [kcall EXCEPT !.fn = "modPow",
                              !.out = modPow(kcall.a, kcall.b, kcall.c)]
    /\ UNCHANGED <<this, hkey, history, ccall, rcall>>

KernelNext == CallEGcd \/ CallToZn \/ CallModInv \/ CallModPow

KernelSpec == KernelInit /\ [][KernelNext]_vars

(***************************************************************************)
(* The codec called on its own                                             *)
(***************************************************************************)
\* The bytes the arrays are made of: every bit clear, the lowest bit, mixed
\* bits, every bit set.
ByteValues == { 0, 1, 171, 255 }

ByteArrays == UNION { [1..n -> ByteValues] : n \in 0..MaxBytes }

HexStrings == UNION { [1..n -> { "0", "1", "a" }] : n \in 0..MaxDigits }

\* BI.BigInt("0x" + digits): a SyntaxError when no digit follows the prefix.
BigInt(digits) ==
    IF Len(digits) = 0
    THEN Throw("SyntaxError: Cannot convert 0x to a BigInt")
    ELSE Ok(bigIntOfHexDigits(digits))

\* The input of the call to come is drawn here: a byte array or a hex string.
CodecInit ==
    /\ \/ \E b \in ByteArrays : ccall = [NoCodecCall EXCEPT !.kind = "bytes", !.bytes = b]
       \/ \E h \in HexStrings : ccall = [NoCodecCall EXCEPT !.kind = "hex", !.hex = h]
    /\ this = constructor(5, 2, 3)
    /\ hkey = 0
    /\ history = << >>
    /\ kcall = NoCall
    /\ rcall = NoRandomACall

\* arrayOfBase64(base64OfArray(bytes))
CallBase64RoundTrip ==
    /\ ccall.fn = "none" /\ ccall.kind = "bytes"
    /\ \E b64 \in { base64OfArray(ccall.bytes) } :
          ccall' = [ccall EXCEPT !.fn = "arrayOfBase64", !.b64 = b64,
                                 !.outBytes = arrayOfBase64(b64)]
    /\ UNCHANGED <<this, hkey, history, kcall, rcall>>

\* trimHexZeroes(hex)
CallTrimHexZeroes ==
    /\ ccall.fn = "none" /\ ccall.kind = "hex"
    /\ ccall' = [ccall EXCEPT !.fn = "trimHexZeroes", !.outHex = trimHexZeroes(ccall.hex)]
    /\ UNCHANGED <<this, hkey, history, kcall, rcall>>

\* What step1 does with serverBB64: hexOfBase64(serverBB64) on the way to u,
\* nonprefixedHexOfPositiveBI(bigintOfBase64(serverBB64)) on the way to M1.
CallHexOfB ==
    /\ ccall.fn = "none" /\ ccall.kind = "bytes"
    /\ Len(ccall.bytes) <= MaxBIBytes
    /\ \E b64 \in { base64OfArray(ccall.bytes) } :
          \E B \in { BigInt(prefixedHexDigits(arrayOfBase64(b64))) } :
             ccall' = [ccall EXCEPT
                          !.fn = "hexOfB", !.b64 = b64,
                          !.outHex = hexOfBase64(b64),
                          !.outBI = IF B.thrown # ""
                                    THEN [thrown |-> B.thrown, val |-> << >>]
                                    ELSE Ok(nonprefixedHexOfPositiveBI(B.val))]
    /\ UNCHANGED <<this, hkey, history, kcall, rcall>>

CodecNext == CallBase64RoundTrip \/ CallTrimHexZeroes \/ CallHexOfB

CodecSpec == CodecInit /\ [][CodecNext]_vars

(***************************************************************************)
(* randomA called on its own                                               *)
(***************************************************************************)
\* The session (group, identity, salt field as constructed), the digest
\* function and the draws the call to come is served are drawn here.
RandomAInit ==
    /\ \E grp \in Groups, identity \in Identities :
          /\ this = [constructor(grp.N, grp.g, grp.k) EXCEPT !.I = identity]
          /\ \E ds \in DrawSeqs(grp.N) : rcall = [NoRandomACall EXCEPT !.draws = ds]
    /\ hkey \in 0..(HashKeys - 1)
    /\ history = << >>
    /\ kcall = NoCall
    /\ ccall = NoCodecCall

\* randomA served the draws of rcall: returned says whether it came back having
\* used exactly these draws.
CallRandomA ==
    /\ rcall.fn = "none"
    /\ \E r \in { randomA(this, rcall.draws) } :
          rcall' = [rcall EXCEPT !.fn = "randomA", !.returned = r.returned, !.val = r.val]
    /\ UNCHANGED <<this, hkey, history, kcall, ccall>>

RandomANext == CallRandomA

RandomASpec == RandomAInit /\ [][RandomANext]_vars

(***************************************************************************)
(* Arithmetic the properties are stated with                               *)
(***************************************************************************)
Divides(d, n) == n % d = 0

\* The greatest common divisor of a and b, b > 0.
Gcd(a, b) ==
    CHOOSE d \in 1..b :
        /\ Divides(d, a) /\ Divides(d, b)
        /\ \A e \in 1..b : Divides(e, a) /\ Divides(e, b) => e <= d

\* b^e mod n for e >= 0, n > 0.
RECURSIVE PowMod(_, _, _)
PowMod(b, e, n) ==
    IF e = 0
    THEN 1 % n
    ELSE LET h == PowMod(b, e \div 2, n)
         IN  IF e % 2 = 0 THEN (h * h) % n ELSE (h * h * b) % n

(***************************************************************************)
(* Properties of the session (Spec)                                        *)
(***************************************************************************)
Calls == 1..Len(history)

SucceededStep1(c) == c.op = "step1" /\ c.ret.thrown = "" /\ c.ret.isOk

BadM2 == "Bad server credentials (M2)"
BadB == "Bad server public value B = 0"

\* The x of (salt, identity, password) as step1 derives it.
XOfStep1(c) ==
    generateX(c.pre, hexOfBase64(c.args.salt), c.args.identity, c.args.password)

\* The verifier g^x mod N the server holds for the credentials of step1 call c.
ServerVerifier(c) == PowMod(c.pre.g, XOfStep1(c), c.pre.N)

\* The server private keys b for which the B of call c is (k*v + g^b) mod N.
ServerPrivateKeys(c) ==
    { b \in 1..(c.pre.N - 1) :
        bigintOfBase64(c.args.serverB)
            = (c.pre.k * ServerVerifier(c) + PowMod(c.pre.g, b, c.pre.N)) % c.pre.N }

\* The server's premaster secret (A * v^u)^b mod N.
ServerS(c, b) ==
    LET A == PowMod(c.pre.g, c.loc.a, c.pre.N)
    IN  PowMod(A * PowMod(ServerVerifier(c), c.loc.u, c.pre.N), b, c.pre.N)

\* The server's evidence M2 = H(hex(A) || hex(M1) || hex(S_server)), as base64.
ServerM2(c, b) ==
    base64OfArray(hash(c.post.AHex \o c.post.M1Hex
                       \o nonprefixedHexOfPositiveBI(ServerS(c, b))))

\* C1, as stated: when the server holds v = g^x mod N for the same credentials and
\* sends B = (k*v + g^b) mod N with B mod N # 0 and u # 0, step1 returns success,
\* the S it stores is the server's (A * v^u)^b mod N, and step2 called with the
\* server's M2 returns success with value S.
C1_EndToEndAgreement ==
    \A i \in Calls :
        LET c == history[i]
        IN  (c.op = "step1" /\ ~serverBIsZero(c.post) /\ c.loc.u # 0) =>
                \A b \in ServerPrivateKeys(c) :
                    /\ SucceededStep1(c)
                    /\ c.post.S = ServerS(c, b)
                    /\ (i < Len(history) /\ history[i + 1].op = "step2"
                        /\ history[i + 1].args.serverM2 = ServerM2(c, b)) =>
                           /\ history[i + 1].ret.isOk
                           /\ history[i + 1].ret.value.BI = c.post.S

\* C2, as stated: after a successful step1, step2(m) returns success with value S
\* if and only if the bytes decoded from m are the digest
\* H(hex(A) || hex(M1) || hex(S)) of the retained values, whatever the digest;
\* in every other case it returns the credential-mismatch failure.
C2_Step2IffDigestMatches ==
    \A i \in Calls :
        LET c == history[i]
            digest == hash(c.pre.AHex \o c.pre.M1Hex
                           \o nonprefixedHexOfPositiveBI(c.pre.S))
        IN  (c.op = "step2" /\ i > 1 /\ SucceededStep1(history[i - 1])) =>
                IF arrayOfBase64(c.args.serverM2) = digest
                THEN c.ret.isOk /\ c.ret.value.BI = c.pre.S
                ELSE ~c.ret.isOk /\ c.ret.errMsg = BadM2

\* C3, as stated: a step2 call not preceded by a successful step1 on the session
\* never returns isOk true, and its rejection is not the 'Bad server
\* credentials (M2)' failure.
C3_Step2BeforeStep1Rejected ==
    \A i \in Calls :
        LET c == history[i]
        IN  (c.op = "step2" /\ \A j \in 1..(i - 1) : ~SucceededStep1(history[j])) =>
                /\ ~c.ret.isOk
                /\ c.ret.errMsg # BadM2

C5_NoExceptionFromSteps ==
    \A i \in Calls :
        history[i].op \in { "step1", "step2" } => history[i].ret.thrown = ""

\* C6, as stated: the verifier step1 recomputes from a salt received as base64
\* equals the verifier generateVerifier returned for the hex of the same salt
\* bytes and the same identity and password: both derive the same x.
C6_VerifierConsistency ==
    \A i \in Calls, j \in Calls :
        LET r == history[i]
            c == history[j]
        IN  (/\ r.op = "generateVerifier" /\ r.ret.thrown = ""
             /\ SucceededStep1(c)
             /\ base64OfHex(r.args.salt) = c.args.salt
             /\ r.args.identity = c.args.identity
             /\ r.args.password = c.args.password) =>
                /\ c.loc.x = r.loc.x
                /\ c.post.verifier = r.ret.value.BI

\* An even number of digits, leading zeroes stripped but for at most one zero
\* nibble that makes the length even.
IsCanonicalHex(h) ==
    /\ Len(h) % 2 = 0
    /\ Len(h) >= 2 => ~(h[1] = "0" /\ h[2] = "0")

\* C7, as stated: every hex string step1 and step2 concatenate into a hash
\* input (the hex of A, of B, of S and of M1) is in the canonical form.
C7_HashedHexCanonical ==
    \A i \in Calls :
        LET c == history[i]
        IN  /\ SucceededStep1(c) =>
                /\ IsCanonicalHex(c.post.AHex)
                /\ IsCanonicalHex(hexOfBase64(c.args.serverB))
                /\ IsCanonicalHex(nonprefixedHexOfPositiveBI(c.post.B))
                /\ IsCanonicalHex(nonprefixedHexOfPositiveBI(c.post.S))
                /\ IsCanonicalHex(c.post.M1Hex)
            /\ c.op = "step2" =>
                /\ IsCanonicalHex(c.pre.AHex)
                /\ IsCanonicalHex(c.pre.M1Hex)
                /\ IsCanonicalHex(nonprefixedHexOfPositiveBI(c.pre.S))

(***************************************************************************)
(* Properties of the arithmetic kernel (KernelSpec)                        *)
(***************************************************************************)
\* C8, as stated: for every x, every N > 1 and every integer y, modPow(x, y, N)
\* returns the expected residue in [0, N): x^y mod N for y > 0, 1 for y = 0, and
\* the inverse of x^(-y) mod N for y < 0 when that inverse exists.
C8_ModPowAllExponents ==
    (kcall.fn = "modPow" /\ kcall.c > 1) =>
        LET x == kcall.a
            y == kcall.b
            n == kcall.c
            out == kcall.out
        IN  /\ y > 0 => out = Ok(PowMod(x, y, n))
            /\ y = 0 => out = Ok(1)
            /\ (y < 0 /\ Gcd(PowMod(x, -y, n), n) = 1) =>
                  /\ out.thrown = ""
                  /\ out.val \in 0..(n - 1)
                  /\ (out.val * PowMod(x, -y, n)) % n = 1

\* C9, as stated: modInv(a, n) fails with a RangeError if and only if n <= 0 or
\* gcd(a, n) # 1; otherwise it returns r in [0, n) with a * r = 1 modulo n.
C9_ModInvFailsIffNoInverse ==
    kcall.fn = "modInv" =>
        LET a == kcall.a
            n == kcall.b
            out == kcall.out
            fails == n <= 0 \/ Gcd(a, n) # 1
        IN  /\ (out.thrown = "RangeError") <=> fails
            /\ ~fails => /\ out.thrown = ""
                         /\ out.val \in 0..(n - 1)
                         /\ (a * out.val - 1) % n = 0

\* C9, amended: modInv(a, n) fails with a RangeError if and only if n <= 1 or
\* gcd(a, n) # 1; otherwise it returns r in [0, n) with a * r = 1 modulo n.
C9_ModInvAmended ==
    kcall.fn = "modInv" =>
        LET a == kcall.a
            n == kcall.b
            out == kcall.out
            fails == n <= 1 \/ Gcd(a, n) # 1
        IN  /\ (out.thrown = "RangeError") <=> fails
            /\ ~fails => /\ out.thrown = ""
                         /\ out.val \in 0..(n - 1)
                         /\ (a * out.val - 1) % n = 0

\* modInv returned the inverse of a negative a that is not its own inverse.
C9_Witness ==
    /\ kcall.fn = "modInv"
    /\ kcall.a = -2 /\ kcall.b = 5
    /\ kcall.out = Ok(2)

\* C10: for strictly positive a and b, eGcd(a, b) returns (g, x, y) with
\* a*x + b*y = g and g = gcd(a, b); if a <= 0 or b <= 0 it throws a RangeError.
C10_EGcdBezout ==
    kcall.fn = "eGcd" =>
        LET a == kcall.a
            b == kcall.b
            out == kcall.out
        IN  IF a > 0 /\ b > 0
            THEN /\ out.thrown = ""
                 /\ a * out.x + b * out.y = out.g
                 /\ out.g = Gcd(a, b)
            ELSE out.thrown = "RangeError"

\* eGcd returned a gcd above 1 with both coefficients used.
C10_Witness ==
    /\ kcall.fn = "eGcd"
    /\ kcall.a = 6 /\ kcall.b = 4
    /\ kcall.out.thrown = ""
    /\ kcall.out.g = 2
    /\ kcall.out.x # 0 /\ kcall.out.y # 0

(***************************************************************************)
(* Further properties of the session (Spec)                                *)
(***************************************************************************)
\* The x of (salt, identity, password) as generateVerifier derives it.
XOfGenerateVerifier(c) == generateX(c.pre, c.args.salt, c.args.identity, c.args.password)

\* C12, as stated: every generateVerifier call returns the verifier g^x mod N of
\* its arguments, and two calls with identical arguments return the identical
\* verifier, whatever the session's state before either call.
C12_VerifierDeterministic ==
    \A i \in Calls :
        LET c == history[i]
        IN  c.op = "generateVerifier" =>
                /\ c.ret.thrown = "" /\ c.ret.isOk
                /\ c.ret.value.BI = PowMod(c.pre.g, XOfGenerateVerifier(c), c.pre.N)
                /\ \A j \in Calls :
                       (history[j].op = "generateVerifier" /\ history[j].args = c.args) =>
                           history[j].ret = c.ret

\* The u of step1 call c: H(hex(A) || hex(B)) read as an integer.
UOfStep1(c) ==
    bigIntOfPrefixedHexOfBuff(
        hash(nonprefixedHexOfPositiveBI(PowMod(c.pre.g, c.loc.a, c.pre.N))
             \o hexOfBase64(c.args.serverB)))

BadU == "Bad client value u"

\* C13, as stated: a step1 whose u is 0 returns the invalid-scrambling-parameter
\* failure and leaves S, K and M1 as they were; a step1 whose u is not 0 and
\* whose B is not 0 modulo N returns success.
C13_ZeroURejectedElseSuccess ==
    \A i \in Calls :
        LET c == history[i]
        IN  (c.op = "step1" /\ ~serverBIsZero(c.post)) =>
                /\ UOfStep1(c) = 0 =>
                       /\ c.ret.thrown = "" /\ ~c.ret.isOk /\ c.ret.errMsg = BadU
                       /\ c.post.S = c.pre.S /\ c.post.K = c.pre.K
                       /\ c.post.M1Hex = c.pre.M1Hex
                /\ UOfStep1(c) # 0 => SucceededStep1(c)

\* The multiplicative order of g modulo N.
OrderOf(g, N) ==
    CHOOSE e \in 1..(N - 1) :
        /\ PowMod(g, e, N) = 1
        /\ \A f \in 1..(e - 1) : PowMod(g, f, N) # 1

\* The public key A that the successful step1 call c handed back in AB64.
SentA(c) == bigintOfBase64(c.ret.value.AB64)

\* C15, as stated: the public key A = g^a mod N that step1 computes and sends is
\* never 1.
C15_PublicKeyNeverOne ==
    \A i \in Calls :
        LET c == history[i]
        IN  SucceededStep1(c) => SentA(c) # 1

\* C15, amended: the public key A that step1 sends is g^a mod N with 0 < a < N,
\* and it is 1 exactly when a is a multiple of the multiplicative order of g
\* modulo N (for g a primitive root: exactly when a = N - 1).
C15_PublicKeyOneIffOrderDividesA ==
    \A i \in Calls :
        LET c == history[i]
        IN  SucceededStep1(c) =>
                /\ 0 < c.loc.a /\ c.loc.a < c.pre.N
                /\ SentA(c) = PowMod(c.pre.g, c.loc.a, c.pre.N)
                /\ SentA(c) = 1 <=> Divides(OrderOf(c.pre.g, c.pre.N), c.loc.a)

\* A successful step1 whose a is N - 1 sent A = 1 ("AQ==").
C15_Witness ==
    \E i \in Calls :
        /\ SucceededStep1(history[i])
        /\ history[i].loc.a = history[i].pre.N - 1
        /\ history[i].ret.value.AB64 = << "A", "Q", "=", "=" >>
        /\ history[i].post.AHex = << "0", "1" >>

(***************************************************************************)
(* Properties of the codec (CodecSpec)                                     *)
(***************************************************************************)
\* C11: for every byte array b, arrayOfBase64(base64OfArray(b)) has the length
\* and the bytes of b.
C11_Base64RoundTrip ==
    ccall.fn = "arrayOfBase64" =>
        /\ Len(ccall.outBytes) = Len(ccall.bytes)
        /\ \A i \in 1..Len(ccall.bytes) : ccall.outBytes[i] = ccall.bytes[i]

\* A two-byte array with a leading zero byte went through "AKs=" and came back.
C11_Witness ==
    /\ ccall.fn = "arrayOfBase64"
    /\ ccall.bytes = << 0, 171 >>
    /\ ccall.b64 = << "A", "K", "s", "=" >>
    /\ ccall.outBytes = << 0, 171 >>

\* The number of leading zero digits of h.
LeadingZeroDigits(h) ==
    CHOOSE n \in 0..Len(h) :
        /\ \A i \in 1..n : h[i] = "0"
        /\ n < Len(h) => h[n + 1] # "0"

\* h without its leading zero digits.
Stripped(h) == SubSeq(h, LeadingZeroDigits(h) + 1, Len(h))

\* The number a hex string denotes, the string of no digit denoting 0.
NumericValue(h) == bigIntOfHexDigits(h)

\* C16: for every hex string h, trimHexZeroes(h) is h with its leading zero
\* digits stripped and exactly one zero digit re-added when the remaining digit
\* count is odd; the result has even length, at most one leading zero nibble and
\* the numeric value of h.
C16_TrimHexZeroes ==
    ccall.fn = "trimHexZeroes" =>
        LET h == ccall.hex
            out == ccall.outHex
        IN  /\ out = IF Len(Stripped(h)) % 2 = 1
                     THEN << "0" >> \o Stripped(h)
                     ELSE Stripped(h)
            /\ Len(out) % 2 = 0
            /\ LeadingZeroDigits(out) <= 1
            /\ NumericValue(out) = NumericValue(h)

\* "00a": two zero digits stripped, one re-added.
C16_Witness ==
    /\ ccall.fn = "trimHexZeroes"
    /\ ccall.hex = << "0", "0", "a" >>
    /\ ccall.outHex = << "0", "a" >>

\* C17, as stated: for every byte array b, hexOfBase64(base64OfArray(b)) equals
\* nonprefixedHexOfPositiveBI(bigintOfBase64(base64OfArray(b))).
C17_HexRoutesAgree ==
    ccall.fn = "hexOfB" => ccall.outBI = Ok(ccall.outHex)

(***************************************************************************)
(* Properties of randomA (RandomASpec)                                     *)
(***************************************************************************)
\* What one draw reduces to: the random value plus the value derived from the
\* hash of identity:salt:time, modulo N.
DrawResidue(obj, d) ==
    (bigIntOfPrefixedHexOfBuff(d.random)
     + bigIntOfPrefixedHexOfBuff(
           hash(obj.I \o << ":" >> \o obj.salt \o << ":" >> \o d.time))) % obj.N

\* C14: randomA returns after exactly the draws it was served if and only if
\* the last of them is the first to reduce to a non-zero value modulo N (a draw
\* that reduces to 0 is never returned, the draw is repeated), and the a it
\* returns is that value, 0 < a < N.
C14_RandomAInRange ==
    rcall.fn = "randomA" =>
        LET ds == rcall.draws
            n == Len(ds)
        IN  /\ rcall.returned <=>
                   /\ \A i \in 1..(n - 1) : DrawResidue(this, ds[i]) = 0
                   /\ DrawResidue(this, ds[n]) # 0
            /\ rcall.returned =>
                   /\ rcall.val = DrawResidue(this, ds[n])
                   /\ 0 < rcall.val /\ rcall.val < this.N

\* The first draw reduced to 0, the draw was repeated, the second was returned.
C14_Witness ==
    /\ rcall.fn = "randomA"
    /\ Len(rcall.draws) = 2
    /\ DrawResidue(this, rcall.draws[1]) = 0
    /\ rcall.returned
    /\ rcall.val = DrawResidue(this, rcall.draws[2])
    /\ rcall.val > 0

=============================================================================
